---- MODULE Spec2Model ----
(***************************************************************************)
(* The order-placement transaction of the Zomato clone API                 *)
(* (POST /api/orders, src/unnamed/part_001 lines 342-392) over a           *)
(* PostgreSQL store read at the default READ COMMITTED isolation level:    *)
(* every SELECT of a transaction sees the rows committed at the moment the *)
(* statement runs, and a transaction's own INSERTs become visible to       *)
(* others only at COMMIT.                                                  *)
(*                                                                         *)
(* Beside it: the reader of one order (GET /api/orders/:id), the rate      *)
(* limiter mounted on /api/, the health check (GET /health), the routes    *)
(* of the restaurants, and the start-up and shutdown of the process        *)
(* (initializeDatabase, insertSampleData, startServer, signal handlers).   *)
(*                                                                         *)
(* The program's own start-up leaves menu_items empty (the INSERT of its    *)
(* sample menu is rejected); menu rows and price changes come from other   *)
(* clients of the store.  A rejection that escapes a route handler is      *)
(* either forwarded to the error middleware (Express 5) or left unhandled  *)
(* (Express 4), which ends the process.                                    *)
(*                                                                         *)
(* Prices are counted in whole cents, as the DECIMAL(10,2) columns hold    *)
(* them.  total_amount of the handler is a JavaScript number: the prices   *)
(* node-postgres returns as strings are converted, multiplied and added    *)
(* as IEEE-754 doubles, and the store rounds the number it is sent to two  *)
(* decimals.  The pass-through                                             *)
(* columns user_id, restaurant_id and delivery_address are not modelled;   *)
(* a failure of the INSERT they belong to (for instance the restaurant     *)
(* foreign key) is one of the failures every query can have.               *)
(***************************************************************************)
EXTENDS Integers, Sequences, FiniteSets, TLC

\* ------------------------------------------------------------- bounds
MaxItems == 2          \* longest items list of a request
MaxQty == 3            \* largest quantity of a list entry
MaxPriceChanges == 1   \* menu price updates in one behaviour
MaxOver == 2           \* requests beyond the limit the model follows in one window
MaxRestarts == 1       \* times the process is started again over the same store
MaxReads == 2          \* requests of the reader counted in one window

\* ------------------------------------------------------------- constants
ButterChicken == 1899  \* price of 'Butter Chicken' in the sample data, in cents
PaneerTikka == 1699    \* price of 'Paneer Tikka' in the sample data, in cents
UnknownId == 999       \* the id the tests use for a menu item that does not exist
SuccessPercent == 100  \* the value the handler sets the gauge to
Created == 201
InternalError == 500
QuotedPrice == 1599    \* the price the load test's client puts on an entry, in cents
Ok == 200
BadRequest == 400
NotFound == 404
TooManyRequests == 429
ServiceUnavailable == 503
RateMax == 100         \* max of the rate limiter: requests per window and IP
Precision == 53        \* bits of the significand of a JavaScript number
Scale == 100           \* cents in a unit of a DECIMAL(10,2) column
Radix == 10            \* base of the digits a number is sent to the store in

Handlers == {"h1", "h2"}   \* invocations of the handler that may overlap
First == "h1"
MenuIds == {1, 2}          \* ids of the rows other clients put in menu_items
ItemIds == MenuIds \cup {UnknownId}
Prices == {ButterChicken, PaneerTikka}   \* the prices an update may set

Item == [menu_item_id : ItemIds, quantity : 1..MaxQty]

\* every items list of at most MaxItems entries
ItemLists == UNION {[1..n -> Item] : n \in 0..MaxItems}

\* the items lists whose entries all order one unit of the same menu item
SharedItem == CHOOSE m \in MenuIds : \A n \in MenuIds : m <= n
SharedLists == {l \in ItemLists : \A i \in DOMAIN l :
                    l[i].menu_item_id = SharedItem /\ l[i].quantity = 1}

\* the items lists that order one unit of menu items per entry
UnitLists == {l \in ItemLists : \A i \in DOMAIN l :
                  l[i].menu_item_id \in MenuIds /\ l[i].quantity = 1}

\* the menu of the first restaurant, as another client of the store
\* creates it
SampleMenu == [m \in MenuIds |-> IF m = 1 THEN ButterChicken ELSE PaneerTikka]

\* the price field a client may put on the entries of items (0: none)
ClientPrices == {0, QuotedPrice}

\* restaurants after insertSampleData: id -> name
SampleRestaurants == [r \in {1, 2} |-> IF r = 1 THEN "Spice Garden" ELSE "Pizza Palace"]

\* client addresses the limiter keeps a counter for
Ips == {"ip1", "ip2"}
Caller == "ip1"    \* the address the order requests come from
Reader == "ip2"    \* the address the read requests come from

\* GET /health requests that may overlap
Probes == {"p1", "p2"}

\* GET /api/orders/:id requests that may overlap
Gets == {"g1", "g2"}

\* requests for the restaurants routes and for unknown paths that may overlap
Reqs == {"r1", "r2"}

\* the signals the process has a handler for
Signals == {"SIGTERM", "SIGINT"}

\* the tables initializeDatabase creates, in the order of its statements
Schema == <<"restaurants", "menu_items", "orders", "order_items">>

\* the server process once it is listening after its first start-up, over
\* an empty database that resolved every statement it was able to execute:
\* insertSampleData ended in its catch block, at the INSERT of the menu
Running ==
    [at |-> "listening", step |-> 0, tables |-> {Schema[k] : k \in DOMAIN Schema},
     initFailed |-> FALSE, seedFailed |-> TRUE,
     done |-> <<"initializeDatabase", "insertSampleData">>,
     r1 |-> 1, r2 |-> 2, restarts |-> 0, refused |-> FALSE,
     sig |-> [s \in Signals |-> "idle"], closed |-> <<>>, exit |-> -1]

\* the process when startServer is called: nothing has run, the store has
\* the tables an earlier process left
Booting(tables, restarts) ==
    [at |-> "initializeDatabase", step |-> 1, tables |-> tables,
     initFailed |-> FALSE, seedFailed |-> FALSE, done |-> <<>>,
     r1 |-> 0, r2 |-> 0, restarts |-> restarts, refused |-> FALSE,
     sig |-> [s \in Signals |-> "idle"], closed |-> <<>>, exit |-> -1]

NoResponse == [status |-> 0]
NoCache == [present |-> FALSE]
NoProbe == [at |-> "idle", db |-> "none", redis |-> "none", res |-> NoResponse]
NoGet == [at |-> "idle", id |-> 0, res |-> NoResponse]
NoReq == [at |-> "idle", method |-> "", url |-> <<>>, res |-> NoResponse]
TooManyMessage == "Too many requests from this IP, please try again later."
DbError == "db error"
RedisError == "redis error"

VARIABLES
    menu,          \* menu_items: id -> committed price
    priceChanges,  \* number of price updates so far
    orders,        \* committed rows of orders, in insertion order
    orderItems,    \* committed rows of order_items, in insertion order
    orderSeq,      \* last value handed out by orders_id_seq
    gauge,         \* order_success_rate
    pc,            \* handler -> position in the handler
    items,         \* handler -> req.body.items
    idx,           \* handler -> position of the running for-of loop
    total,         \* handler -> total_amount
    orderId,       \* handler -> orderId (0 before the order insert)
    rowPrice,      \* handler -> rows[0].price of the second SELECT
    seen,          \* handler -> prices read by the first loop (history)
    reread,        \* handler -> prices read by the second loop (history)
    pendOrders,    \* handler -> order rows written, not yet committed
    pendItems,     \* handler -> order_items rows written, not yet committed
    tx,            \* handler -> state of its transaction
    err,           \* handler -> error.message of the caught error
    resp,          \* handler -> response sent
    conn,          \* handler -> TRUE while it holds a pool connection
    releases,      \* handler -> client.release() calls of this request
    supplied,      \* handler -> price field the client put on the entries (0: none)
    rejection,     \* handler -> what became of a rejection the handler let escape
    restaurants,   \* restaurants: id -> name
    got,           \* GET /api/orders/:id request -> where it is, the id asked for, its response
    hits,          \* ip -> requests the limiter counted in the running window
    reached,       \* ip -> requests of the running window passed on to a route (history)
    limited,       \* ip -> status of the limiter's last decision
    health,        \* GET /health request -> where it is, what its probes did, its response
    routed,        \* request for a restaurants or unknown path -> where it is, its response
    cached,        \* Redis: what is stored under the key of GET /api/restaurants
    menuOwner,     \* menu_items: id -> restaurant_id
    proc           \* the server process: where start-up and shutdown are

vars == <<menu, priceChanges, orders, orderItems, orderSeq, gauge, pc,
          items, idx, total, orderId, rowPrice, seen, reread, pendOrders,
          pendItems, tx, err, resp, conn, releases, supplied, rejection,
          restaurants, got, hits, reached, limited, health, routed, cached,
          menuOwner, proc>>

\* the store and the state of the order handler
placing == <<menu, priceChanges, orders, orderItems, orderSeq, gauge, pc,
             items, idx, total, orderId, rowPrice, seen, reread, pendOrders,
             pendItems, tx, err, resp, conn, releases, supplied, rejection>>

\* the responses of the restaurants routes, the cache, the owners of the menu
\* items and the process
elsewhere == <<routed, cached, menuOwner, proc>>

\* state no statement of the order handler reads or writes
outside == <<restaurants, got, hits, reached, limited, health, elsewhere>>

\* ------------------------------------------------------------- queries
\* mutant: the query answers a row of price 0 for an id that is not on the menu
SelectPriceDefault(id) ==
    <<[price |-> IF id \in DOMAIN menu THEN menu[id] ELSE 0]>>

\* mutant: the price comes from a copy of the menu taken at start-up
SelectPriceSeeded(id) ==
    IF id \in DOMAIN menu THEN <<[price |-> SampleMenu[id]]>> ELSE <<>>

\* rows of SELECT price FROM menu_items WHERE id = $1
SelectPrice(id) == IF id \in DOMAIN menu THEN <<[price |-> menu[id]]>> ELSE <<>>

\* error.message of the error thrown for a missing menu item
NotFoundMessage(id) == [text |-> "Menu item not found", id |-> id]
QueryFailed == [text |-> DbError, id |-> 0]
NoError == [text |-> "", id |-> 0]

\* ---------------------------------------------- JavaScript numbers
\* A number other than 0 is [m, e]: the Precision bits m of its significand,
\* most significant first, and the exponent e of the last of them; its
\* value is Value(m) * 2^e.  Only numbers >= 0 occur.

\* bits of the binary expansion of a fraction that are written out before
\* rounding; what follows them only matters for being zero or not
FractionBits == 2 * Precision

\* let total_amount = 0
Zero == [m |-> <<>>, e |-> 0]

Zeros(n) == IF n <= 0 THEN <<>> ELSE [i \in 1..n |-> 0]

\* the binary digits of a natural number, without leading zeros
RECURSIVE Bits(_)
Bits(v) == IF v = 0 THEN <<>> ELSE Append(Bits(v \div 2), v % 2)

\* the natural number binary digits denote
RECURSIVE Value(_)
Value(bits) == IF Len(bits) = 0 THEN 0
               ELSE 2 * Value(SubSeq(bits, 1, Len(bits) - 1)) + bits[Len(bits)]

\* binary digits without their leading zeros
Strip(bits) ==
    IF \A i \in 1..Len(bits) : bits[i] = 0 THEN <<>>
    ELSE LET first == CHOOSE i \in 1..Len(bits) :
                          bits[i] = 1 /\ \A j \in 1..(i - 1) : bits[j] = 0
         IN  SubSeq(bits, first, Len(bits))

\* the addition of a and b carries into position i
Carry(a, b, i) ==
    \E j \in (i + 1)..Len(a) :
        a[j] + b[j] = 2 /\ \A k \in (i + 1)..(j - 1) : a[k] + b[k] = 1

\* the digits of the exact sum of two naturals
AddBits(x, y) ==
    LET n == IF Len(x) > Len(y) THEN Len(x) ELSE Len(y)
        a == Zeros(n + 1 - Len(x)) \o x
        b == Zeros(n + 1 - Len(y)) \o y
    IN  Strip([i \in 1..(n + 1) |->
                  (a[i] + b[i] + (IF Carry(a, b, i) THEN 1 ELSE 0)) % 2])

\* the digits of the exact product of a natural and q
RECURSIVE MulBits(_, _)
MulBits(bits, q) ==
    IF q = 0 THEN <<>>
    ELSE IF q % 2 = 0 THEN MulBits(bits, q \div 2) \o <<0>>
    ELSE AddBits(MulBits(bits, q \div 2) \o <<0>>, bits)

\* the number nearest to Value(bits) * 2^e, ties to the even significand;
\* more: the exact value has nonzero digits beyond bits
RoundTo(bits, e, more) ==
    LET n == Len(bits)
    IN  IF n <= Precision
        THEN [m |-> bits \o Zeros(Precision - n), e |-> e - (Precision - n)]
        ELSE LET keep == SubSeq(bits, 1, Precision)
                 sticky == more \/ \E i \in (Precision + 2)..n : bits[i] = 1
                 up == bits[Precision + 1] = 1 /\ (sticky \/ keep[Precision] = 1)
                 inc == IF up THEN AddBits(keep, <<1>>) ELSE keep
             IN  IF Len(inc) > Precision
                 THEN [m |-> SubSeq(inc, 1, Precision), e |-> e + (n - Precision) + 1]
                 ELSE [m |-> inc, e |-> e + (n - Precision)]

\* 2^k modulo scale
RECURSIVE PowerOfTwo(_, _)
PowerOfTwo(k, scale) ==
    IF k = 0 THEN 1 % scale
    ELSE IF k % 2 = 0
    THEN (PowerOfTwo(k \div 2, scale) * PowerOfTwo(k \div 2, scale)) % scale
    ELSE (2 * PowerOfTwo(k - 1, scale)) % scale

\* what is left of r / scale after n binary digits, times scale
Remainder(r, n, scale) == (r * PowerOfTwo(n, scale)) % scale

\* the first n binary digits of r / scale, for r < scale
Fraction(r, n, scale) == [i \in 1..n |-> (2 * Remainder(r, i - 1, scale)) \div scale]

\* the number nearest to v / scale: what a decimal string converts to
Nearest(v, scale) ==
    IF v = 0 THEN Zero
    ELSE RoundTo(Strip(Bits(v \div scale) \o Fraction(v % scale, FractionBits, scale)),
                 0 - FractionBits, Remainder(v % scale, FractionBits, scale) # 0)

\* rows[0].price, the string of a DECIMAL(10,2) value, used as a number
ToNumber(cents) == Nearest(cents, Scale)

\* d * q for a number d and an integer q, rounded once
Times(d, q) ==
    IF d = Zero \/ q = 0 THEN Zero ELSE RoundTo(MulBits(d.m, q), d.e, FALSE)

\* a + b, rounded once
Plus(a, b) ==
    IF a = Zero THEN b
    ELSE IF b = Zero THEN a
    ELSE LET e == IF a.e < b.e THEN a.e ELSE b.e
         IN  RoundTo(AddBits(a.m \o Zeros(a.e - e), b.m \o Zeros(b.e - e)), e, FALSE)

\* the cents a DECIMAL(10,2) column holds for the number d: the store
\* receives the shortest decimal string that converts back to d and rounds
\* it to two decimals, halves up.  That string ends in a half cent exactly
\* when d is the number nearest to that half cent; otherwise it lies on the
\* same side of the half cent as d itself.
Decimal(d) ==
    IF d = Zero THEN 0
    ELSE LET scaled == MulBits(d.m, Scale)
             k == 0 - d.e
             p == Zeros(k + 1 - Len(scaled)) \o scaled
             whole == IF k <= 0 THEN Value(scaled \o Zeros(0 - k))
                      ELSE Value(SubSeq(p, 1, Len(p) - k))
         IN  IF k <= 0 THEN whole
             ELSE IF d = Nearest(Radix * whole + Radix \div 2, Radix * Scale) THEN whole + 1
             ELSE whole + p[Len(p) - k + 1]

\* rows[0].price * item.quantity
LineAmount(price, quantity) == Times(ToNumber(price), quantity)

\* mutant: the INSERT names the status column and writes 'confirmed'
OrderRowConfirmed(id, amount) ==
    [id |-> id, total_amount |-> Decimal(amount), status |-> "confirmed"]

\* the row INSERT INTO orders writes for the number total_amount; status
\* takes the column default
OrderRow(id, amount) ==
    [id |-> id, total_amount |-> Decimal(amount), status |-> "pending"]

\* mutant: the INSERT takes the menu price of the moment it runs, not the
\* price its SELECT returned
ItemPriceLive(h) == menu[items[h][idx[h]].menu_item_id]

\* mutant: an entry that comes with a price is written with that price
ItemPriceQuoted(h) == IF supplied[h] # 0 THEN supplied[h] ELSE rowPrice[h]

\* the price the order-items loop passes to INSERT INTO order_items
ItemPrice(h) == rowPrice[h]

\* mutant: every row is written from the first entry of the list
ItemRowFirstEntry(h) ==
    [order_id |-> orderId[h],
     menu_item_id |-> items[h][1].menu_item_id,
     quantity |-> items[h][1].quantity,
     price |-> rowPrice[h]]

\* the row INSERT INTO order_items writes for the entry the loop is at
ItemRow(h) ==
    [order_id |-> orderId[h],
     menu_item_id |-> items[h][idx[h]].menu_item_id,
     quantity |-> items[h][idx[h]].quantity,
     price |-> ItemPrice(h)]

\* the tables once COMMIT has made the transaction's writes visible
OrdersAfterCommit(h) == orders \o pendOrders[h]
OrderItemsAfterCommit(h) == orderItems \o pendItems[h]

SuccessBody(h) == [status |-> Created, order_id |-> orderId[h], total_amount |-> total[h]]
ErrorBody(h) == [status |-> InternalError, error |-> err[h]]

\* the body of the error-handling middleware
SomethingWentWrong == [text |-> "Something went wrong!", id |-> 0]
ErrorMiddlewareBody == [status |-> InternalError, error |-> SomethingWentWrong]

\* mutant: the second loop ends after its first turn
AfterItemEarly(h, i) == "commit"

\* where the handler goes when a for-of loop over items moves to entry i
AfterLookup(h, i) == IF i > Len(items[h]) THEN "insertOrder" ELSE "lookup"
AfterItem(h, i) == IF i > Len(items[h]) THEN "commit" ELSE "selectItem"

\* an awaited query rejects, or a statement throws: control moves to catch
Throw(h, e) ==
    /\ pc' = [pc EXCEPT ![h] = "catch"]
    /\ err' = [err EXCEPT ![h] = e]

\* ------------------------------------------------------------- initial state
Init ==
    /\ menu = <<>>
    /\ priceChanges = 0
    /\ orders = <<>>
    /\ orderItems = <<>>
    /\ orderSeq = 0
    /\ gauge = 0
    /\ pc = [h \in Handlers |-> "idle"]
    /\ items = [h \in Handlers |-> <<>>]
    /\ idx = [h \in Handlers |-> 0]
    /\ total = [h \in Handlers |-> Zero]
    /\ orderId = [h \in Handlers |-> 0]
    /\ rowPrice = [h \in Handlers |-> 0]
    /\ seen = [h \in Handlers |-> <<>>]
    /\ reread = [h \in Handlers |-> <<>>]
    /\ pendOrders = [h \in Handlers |-> <<>>]
    /\ pendItems = [h \in Handlers |-> <<>>]
    /\ tx = [h \in Handlers |-> "none"]
    /\ err = [h \in Handlers |-> NoError]
    /\ resp = [h \in Handlers |-> NoResponse]
    /\ conn = [h \in Handlers |-> FALSE]
    /\ releases = [h \in Handlers |-> 0]
    /\ supplied = [h \in Handlers |-> 0]
    /\ rejection = [h \in Handlers |-> "none"]
    /\ restaurants = SampleRestaurants
    /\ got = [g \in Gets |-> NoGet]
    /\ hits = [ip \in Ips |-> 0]
    /\ reached = [ip \in Ips |-> 0]
    /\ limited = [ip \in Ips |-> 0]
    /\ health = [p \in Probes |-> NoProbe]
    /\ routed = [r \in Reqs |-> NoReq]
    /\ cached = NoCache
    /\ menuOwner = <<>>
    /\ proc = Running

\* the process runs
Alive == proc.at # "exited"

\* the server accepts requests
Listening == proc.at = "listening"

\* ------------------------------------------------------------- rate limiting
\* mutant: the limiter compares the count before the request is added to it
OverLimitOffByOne(ip) == hits[ip] > RateMax

\* the limiter's verdict on a request of an address: the request is counted,
\* and refused when the count of the window then exceeds max
OverLimit(ip) == hits[ip] + 1 > RateMax

\* app.use('/api/', limiter): a request under /api/ is counted for its IP;
\* beyond max it is answered 429, else it is passed on to the routes
Count(ip) ==
    /\ hits' = [hits EXCEPT ![ip] = @ + 1]
    /\ limited' = [limited EXCEPT ![ip] = IF OverLimit(ip) THEN TooManyRequests ELSE 0]
    /\ reached' = [reached EXCEPT ![ip] = IF OverLimit(ip) THEN @ ELSE @ + 1]

\* the limiter's answer to a request beyond max
TooManyBody == [status |-> TooManyRequests, message |-> TooManyMessage]

\* ------------------------------------------------------------- the handler
\* a POST /api/orders request arrives and is counted by the limiter; beyond
\* max it is answered 429 and the handler does not run, else the handler
\* starts with fresh locals and calls pool.connect()
Receive(h, ip, body, quote) ==
    /\ pc[h] = "idle"
    /\ Listening
    /\ Count(ip)
    /\ pc' = [pc EXCEPT ![h] = IF OverLimit(ip) THEN "limited" ELSE "connect"]
    /\ items' = [items EXCEPT ![h] = body]
    /\ idx' = [idx EXCEPT ![h] = 0]
    /\ total' = [total EXCEPT ![h] = Zero]
    /\ orderId' = [orderId EXCEPT ![h] = 0]
    /\ rowPrice' = [rowPrice EXCEPT ![h] = 0]
    /\ seen' = [seen EXCEPT ![h] = <<>>]
    /\ reread' = [reread EXCEPT ![h] = <<>>]
    /\ pendOrders' = [pendOrders EXCEPT ![h] = <<>>]
    /\ pendItems' = [pendItems EXCEPT ![h] = <<>>]
    /\ tx' = [tx EXCEPT ![h] = "none"]
    /\ err' = [err EXCEPT ![h] = NoError]
    /\ resp' = [resp EXCEPT ![h] = IF OverLimit(ip) THEN TooManyBody ELSE NoResponse]
    /\ conn' = [conn EXCEPT ![h] = FALSE]
    /\ releases' = [releases EXCEPT ![h] = 0]
    /\ supplied' = [supplied EXCEPT ![h] = quote]
    /\ rejection' = [rejection EXCEPT ![h] = "none"]
    /\ UNCHANGED <<menu, priceChanges, orders, orderItems, orderSeq, gauge>>
    /\ UNCHANGED <<restaurants, got, health, elsewhere>>

\* A POST /api/orders request arrives whose body is not JSON.  express.json
\* fails on it with a 400 error and passes the error on; the limiter and the
\* routes are skipped, and the error-handling middleware, which answers every
\* error alike, answers it.
ReceiveMalformed(h) ==
    /\ pc[h] = "idle"
    /\ Listening
    /\ pc' = [pc EXCEPT ![h] = "refused"]
    /\ resp' = [resp EXCEPT ![h] = ErrorMiddlewareBody]
    /\ UNCHANGED <<menu, priceChanges, orders, orderItems, orderSeq, gauge,
                   items, idx, total, orderId, rowPrice, seen, reread,
                   pendOrders, pendItems, tx, err, conn, releases>>
    /\ UNCHANGED <<supplied, rejection, outside>>

\* const client = await pool.connect();  outside the try block
Connect(h, ok) ==
    /\ pc[h] = "connect"
    /\ Alive
    /\ IF ok
       THEN /\ conn' = [conn EXCEPT ![h] = TRUE]
            /\ pc' = [pc EXCEPT ![h] = "begin"]
       ELSE /\ conn' = conn
            /\ pc' = [pc EXCEPT ![h] = "connectFailed"]
    /\ UNCHANGED <<reread, menu, priceChanges, orders, orderItems, orderSeq, gauge,
                   items, idx, total, orderId, rowPrice, seen, pendOrders,
                   pendItems, tx, err, resp, releases>>
    /\ UNCHANGED <<supplied, rejection, outside>>

\* await client.query('BEGIN'); let total_amount = 0;
Begin(h, ok) ==
    /\ pc[h] = "begin"
    /\ Alive
    /\ IF ok
       THEN /\ tx' = [tx EXCEPT ![h] = "open"]
            /\ idx' = [idx EXCEPT ![h] = 1]
            /\ pc' = [pc EXCEPT ![h] = AfterLookup(h, 1)]
            /\ err' = err
       ELSE /\ Throw(h, QueryFailed)
            /\ UNCHANGED <<tx, idx>>
    /\ UNCHANGED <<reread, menu, priceChanges, orders, orderItems, orderSeq, gauge,
                   items, total, orderId, rowPrice, seen, pendOrders, pendItems,
                   resp, conn, releases>>
    /\ UNCHANGED <<supplied, rejection, outside>>

\* one turn of the first loop: read the price, add price * quantity
Lookup(h, ok) ==
    /\ pc[h] = "lookup"
    /\ Alive
    /\ LET item == items[h][idx[h]]
           rows == SelectPrice(item.menu_item_id)
       IN  IF ~ok
           THEN /\ Throw(h, QueryFailed)
                /\ UNCHANGED <<total, seen, idx>>
           ELSE IF Len(rows) = 0
           THEN /\ Throw(h, NotFoundMessage(item.menu_item_id))
                /\ UNCHANGED <<total, seen, idx>>
           ELSE /\ total' = [total EXCEPT ![h] =
                                 Plus(@, LineAmount(rows[1].price, item.quantity))]
                /\ seen' = [seen EXCEPT ![h] = Append(@, rows[1].price)]
                /\ idx' = [idx EXCEPT ![h] = @ + 1]
                /\ pc' = [pc EXCEPT ![h] = AfterLookup(h, idx[h] + 1)]
                /\ err' = err
    /\ UNCHANGED <<reread, menu, priceChanges, orders, orderItems, orderSeq, gauge,
                   items, orderId, rowPrice, pendOrders, pendItems, tx, resp,
                   conn, releases>>
    /\ UNCHANGED <<supplied, rejection, outside>>

\* mutant: the id is the number of committed orders plus one instead of a
\* value drawn from the sequence
InsertOrderCountId(h, ok) ==
    /\ pc[h] = "insertOrder"
    /\ Alive
    /\ IF ok
       THEN /\ orderSeq' = orderSeq + 1
            /\ orderId' = [orderId EXCEPT ![h] = Len(orders) + 1]
            /\ pendOrders' = [pendOrders EXCEPT ![h] =
                                  Append(@, OrderRow(Len(orders) + 1, total[h]))]
            /\ idx' = [idx EXCEPT ![h] = 1]
            /\ pc' = [pc EXCEPT ![h] = AfterItem(h, 1)]
            /\ err' = err
       ELSE /\ Throw(h, QueryFailed)
            /\ UNCHANGED <<orderSeq, orderId, pendOrders, idx>>
    /\ UNCHANGED <<reread, menu, priceChanges, orders, orderItems, gauge, items,
                   total, rowPrice, seen, pendItems, tx, resp, conn, releases>>
    /\ UNCHANGED <<supplied, rejection, outside>>

\* mutant: the order row is written outside the transaction and is visible
\* to every reader at once
InsertOrderAutocommit(h, ok) ==
    /\ pc[h] = "insertOrder"
    /\ Alive
    /\ IF ok
       THEN /\ orderSeq' = orderSeq + 1
            /\ orderId' = [orderId EXCEPT ![h] = orderSeq + 1]
            /\ orders' = Append(orders, OrderRow(orderSeq + 1, total[h]))
            /\ idx' = [idx EXCEPT ![h] = 1]
            /\ pc' = [pc EXCEPT ![h] = AfterItem(h, 1)]
            /\ err' = err
       ELSE /\ Throw(h, QueryFailed)
            /\ UNCHANGED <<orderSeq, orderId, orders, idx>>
    /\ UNCHANGED <<reread, menu, priceChanges, pendOrders, orderItems, gauge, items,
                   total, rowPrice, seen, pendItems, tx, resp, conn, releases>>
    /\ UNCHANGED <<supplied, rejection, outside>>

\* INSERT INTO orders ... RETURNING id; const orderId = orderResult.rows[0].id
InsertOrder(h, ok) ==
    /\ pc[h] = "insertOrder"
    /\ Alive
    /\ IF ok
       THEN /\ orderSeq' = orderSeq + 1
            /\ orderId' = [orderId EXCEPT ![h] = orderSeq + 1]
            /\ pendOrders' = [pendOrders EXCEPT ![h] =
                                  Append(@, OrderRow(orderSeq + 1, total[h]))]
            /\ idx' = [idx EXCEPT ![h] = 1]
            /\ pc' = [pc EXCEPT ![h] = AfterItem(h, 1)]
            /\ err' = err
       ELSE /\ Throw(h, QueryFailed)
            /\ UNCHANGED <<orderSeq, orderId, pendOrders, idx>>
    /\ UNCHANGED <<reread, menu, priceChanges, orders, orderItems, gauge, items,
                   total, rowPrice, seen, pendItems, tx, resp, conn, releases>>
    /\ UNCHANGED <<supplied, rejection, outside>>

\* one turn of the second loop, first await: SELECT price again
SelectItem(h, ok) ==
    /\ pc[h] = "selectItem"
    /\ Alive
    /\ LET rows == SelectPrice(items[h][idx[h]].menu_item_id)
       IN  IF ok /\ Len(rows) > 0
           THEN /\ rowPrice' = [rowPrice EXCEPT ![h] = rows[1].price]
                /\ reread' = [reread EXCEPT ![h] = Append(@, rows[1].price)]
                /\ pc' = [pc EXCEPT ![h] = "insertItem"]
                /\ err' = err
           ELSE /\ Throw(h, QueryFailed)
                /\ UNCHANGED <<rowPrice, reread>>
    /\ UNCHANGED <<menu, priceChanges, orders, orderItems, orderSeq, gauge,
                   items, idx, total, orderId, seen, pendOrders, pendItems, tx,
                   resp, conn, releases>>
    /\ UNCHANGED <<supplied, rejection, outside>>

\* one turn of the second loop, second await: INSERT INTO order_items
InsertItem(h, ok) ==
    /\ pc[h] = "insertItem"
    /\ Alive
    /\ IF ok
       THEN /\ pendItems' = [pendItems EXCEPT ![h] = Append(@, ItemRow(h))]
            /\ idx' = [idx EXCEPT ![h] = @ + 1]
            /\ pc' = [pc EXCEPT ![h] = AfterItem(h, idx[h] + 1)]
            /\ err' = err
       ELSE /\ Throw(h, QueryFailed)
            /\ UNCHANGED <<pendItems, idx>>
    /\ rowPrice' = [rowPrice EXCEPT ![h] = 0]   \* rows goes out of scope
    /\ UNCHANGED <<reread, menu, priceChanges, orders, orderItems, orderSeq, gauge,
                   items, total, orderId, seen, pendOrders, tx, resp,
                   conn, releases>>
    /\ UNCHANGED <<supplied, rejection, outside>>

\* await client.query('COMMIT')
Commit(h, ok) ==
    /\ pc[h] = "commit"
    /\ Alive
    /\ IF ok
       THEN /\ orders' = OrdersAfterCommit(h)
            /\ orderItems' = OrderItemsAfterCommit(h)
            /\ pendOrders' = [pendOrders EXCEPT ![h] = <<>>]
            /\ pendItems' = [pendItems EXCEPT ![h] = <<>>]
            /\ tx' = [tx EXCEPT ![h] = "committed"]
            /\ pc' = [pc EXCEPT ![h] = "respond"]
            /\ err' = err
       ELSE /\ Throw(h, QueryFailed)
            /\ UNCHANGED <<orders, orderItems, pendOrders, pendItems, tx>>
    /\ UNCHANGED <<reread, menu, priceChanges, orderSeq, gauge, items, idx, total,
                   orderId, rowPrice, seen, resp, conn, releases>>
    /\ UNCHANGED <<supplied, rejection, outside>>

\* mutant: a successful order takes the ordered items off the menu
RespondSellsOut(h) ==
    /\ pc[h] = "respond"
    /\ Alive
    /\ gauge' = SuccessPercent
    /\ resp' = [resp EXCEPT ![h] = SuccessBody(h)]
    /\ pc' = [pc EXCEPT ![h] = "finally"]
    /\ menu' = [m \in DOMAIN menu \ {items[h][i].menu_item_id : i \in DOMAIN items[h]}
                    |-> menu[m]]
    /\ UNCHANGED <<reread, priceChanges, orders, orderItems, orderSeq, items,
                   idx, total, orderId, rowPrice, seen, pendOrders, pendItems,
                   tx, err, conn, releases>>
    /\ UNCHANGED <<supplied, rejection, outside>>

\* orderSuccessRate.set(100); res.status(201).json({...})
Respond(h) ==
    /\ pc[h] = "respond"
    /\ Alive
    /\ gauge' = SuccessPercent
    /\ resp' = [resp EXCEPT ![h] = SuccessBody(h)]
    /\ pc' = [pc EXCEPT ![h] = "finally"]
    /\ UNCHANGED <<reread, menu, priceChanges, orders, orderItems, orderSeq, items,
                   idx, total, orderId, rowPrice, seen, pendOrders, pendItems,
                   tx, err, conn, releases>>
    /\ UNCHANGED <<supplied, rejection, outside>>

\* mutant: after a successful ROLLBACK the catch block starts the
\* transaction over instead of answering
CatchRetry(h, ok) ==
    /\ pc[h] = "catch"
    /\ Alive
    /\ IF ok
       THEN /\ pendOrders' = [pendOrders EXCEPT ![h] = <<>>]
            /\ pendItems' = [pendItems EXCEPT ![h] = <<>>]
            /\ tx' = [tx EXCEPT ![h] = "none"]
            /\ pc' = [pc EXCEPT ![h] = "begin"]
       ELSE /\ pc' = [pc EXCEPT ![h] = "finallyThrown"]
            /\ UNCHANGED <<pendOrders, pendItems, tx>>
    /\ UNCHANGED <<reread, menu, priceChanges, orders, orderItems, orderSeq, gauge,
                   items, idx, total, orderId, rowPrice, seen, err, conn,
                   releases, resp>>
    /\ UNCHANGED <<supplied, rejection, outside>>

\* catch: await client.query('ROLLBACK'); res.status(500).json({error})
\* A ROLLBACK that rejects leaves the catch block by throwing: no response
\* is written, and finally still runs.
Catch(h, ok) ==
    /\ pc[h] = "catch"
    /\ Alive
    /\ IF ok
       THEN /\ pendOrders' = [pendOrders EXCEPT ![h] = <<>>]
            /\ pendItems' = [pendItems EXCEPT ![h] = <<>>]
            /\ tx' = [tx EXCEPT ![h] = IF @ = "open" THEN "rolledback" ELSE @]
            /\ resp' = [resp EXCEPT ![h] = ErrorBody(h)]
            /\ pc' = [pc EXCEPT ![h] = "finally"]
       ELSE /\ pc' = [pc EXCEPT ![h] = "finallyThrown"]
            /\ UNCHANGED <<pendOrders, pendItems, tx, resp>>
    /\ UNCHANGED <<reread, menu, priceChanges, orders, orderItems, orderSeq, gauge,
                   items, idx, total, orderId, rowPrice, seen, err, conn,
                   releases>>
    /\ UNCHANGED <<supplied, rejection, outside>>

\* mutant: release() sits at the end of the try and catch blocks instead of
\* a finally block, so a throwing catch block skips it
ReleaseUnlessThrown(h) ==
    /\ pc[h] \in {"finally", "finallyThrown"}
    /\ Alive
    /\ conn' = [conn EXCEPT ![h] = pc[h] = "finallyThrown"]
    /\ releases' = [releases EXCEPT ![h] = IF pc[h] = "finally" THEN @ + 1 ELSE @]
    /\ pc' = [pc EXCEPT ![h] = IF pc[h] = "finally" THEN "done" ELSE "thrown"]
    /\ idx' = [idx EXCEPT ![h] = 0]
    /\ total' = [total EXCEPT ![h] = Zero]
    /\ seen' = [seen EXCEPT ![h] = <<>>]
    /\ reread' = [reread EXCEPT ![h] = <<>>]
    /\ err' = [err EXCEPT ![h] = NoError]
    /\ pendOrders' = [pendOrders EXCEPT ![h] = <<>>]
    /\ pendItems' = [pendItems EXCEPT ![h] = <<>>]
    /\ UNCHANGED <<menu, priceChanges, orders, orderItems, orderSeq, gauge,
                   items, orderId, rowPrice, tx, resp>>
    /\ UNCHANGED <<supplied, rejection, outside>>

\* finally: client.release(); the handler returns and its locals die.  Rows
\* of a transaction that was neither committed nor rolled back go with them:
\* no later statement can commit them.
Release(h) ==
    /\ pc[h] \in {"finally", "finallyThrown"}
    /\ Alive
    /\ conn' = [conn EXCEPT ![h] = FALSE]
    /\ releases' = [releases EXCEPT ![h] = @ + 1]
    /\ pc' = [pc EXCEPT ![h] = IF pc[h] = "finally" THEN "done" ELSE "thrown"]
    /\ idx' = [idx EXCEPT ![h] = 0]
    /\ total' = [total EXCEPT ![h] = Zero]
    /\ seen' = [seen EXCEPT ![h] = <<>>]
    /\ reread' = [reread EXCEPT ![h] = <<>>]
    /\ err' = [err EXCEPT ![h] = NoError]
    /\ pendOrders' = [pendOrders EXCEPT ![h] = <<>>]
    /\ pendItems' = [pendItems EXCEPT ![h] = <<>>]
    /\ UNCHANGED <<menu, priceChanges, orders, orderItems, orderSeq, gauge,
                   items, orderId, rowPrice, tx, resp>>
    /\ UNCHANGED <<supplied, rejection, outside>>

\* The promise of the async handler rejected: pool.connect() rejected, or the
\* catch block threw.  The handler has no code for it; what follows is the
\* framework's doing.  Express 4 ignores the promise a route handler returns,
\* so nothing is ever written to res, and Node 18 ends the process with code
\* 1 on the unhandled rejection; Express 5 passes the rejection to the
\* error-handling middleware, which answers 500.  The repository does not pin
\* the version, so both outcomes are kept.
Rejected(h, forwarded) ==
    /\ pc[h] \in {"connectFailed", "thrown"}
    /\ Alive
    /\ rejection[h] = "none"
    /\ rejection' = [rejection EXCEPT ![h] = IF forwarded THEN "forwarded" ELSE "ignored"]
    /\ resp' = [resp EXCEPT ![h] = IF forwarded THEN ErrorMiddlewareBody ELSE @]
    /\ proc' = IF forwarded THEN proc ELSE [proc EXCEPT !.at = "exited", !.exit = 1]
    /\ UNCHANGED <<menu, priceChanges, orders, orderItems, orderSeq, gauge, pc,
                   items, idx, total, orderId, rowPrice, seen, reread,
                   pendOrders, pendItems, tx, err, conn, releases, supplied>>
    /\ UNCHANGED <<restaurants, got, hits, reached, limited, health, routed,
                   cached, menuOwner>>

\* ------------------------------------------------------------- the store's other clients
\* another transaction commits UPDATE menu_items SET price = v WHERE id = m
UpdatePrice(m, v) ==
    /\ priceChanges < MaxPriceChanges
    /\ m \in DOMAIN menu
    /\ v # menu[m]
    /\ menu' = [menu EXCEPT ![m] = v]
    /\ priceChanges' = priceChanges + 1
    /\ UNCHANGED <<reread, orders, orderItems, orderSeq, gauge, pc, items, idx,
                   total, orderId, rowPrice, seen, pendOrders, pendItems, tx,
                   err, resp, conn, releases>>
    /\ UNCHANGED <<supplied, rejection, outside>>

\* another client commits the INSERT of the sample menu of the first
\* restaurant (the rows get the first ids of the sequence)
CreateMenu ==
    /\ menu = <<>>
    /\ 1 \in DOMAIN restaurants
    /\ menu' = SampleMenu
    /\ menuOwner' = [m \in MenuIds |-> 1]
    /\ UNCHANGED <<priceChanges, orders, orderItems, orderSeq, gauge, pc, items,
                   idx, total, orderId, rowPrice, seen, reread, pendOrders,
                   pendItems, tx, err, resp, conn, releases, supplied, rejection>>
    /\ UNCHANGED <<restaurants, got, hits, reached, limited, health, routed,
                   cached, proc>>

\* ------------------------------------------------------------- reading an order
\* the order_items half of the joined row: json_agg over the LEFT JOIN, which
\* yields one all-null object for an order that has no order_items row
NullItem == [order_id |-> 0, menu_item_id |-> 0, quantity |-> 0, price |-> 0]
AggItems(id) ==
    LET rows == SelectSeq(orderItems, LAMBDA r : r.order_id = id)
    IN  IF Len(rows) = 0 THEN <<NullItem>> ELSE rows

\* rows of SELECT o.*, json_agg(...) FROM orders o LEFT JOIN order_items oi
\* ... WHERE o.id = $1 GROUP BY o.id: one statement, one view of the
\* committed rows
JoinOrder(id) ==
    LET found == SelectSeq(orders, LAMBDA o : o.id = id)
    IN  IF Len(found) = 0 THEN <<>>
        ELSE <<[order |-> found[1], items |-> AggItems(id)]>>

\* a GET /api/orders/:id request arrives and is counted by the limiter;
\* beyond max it is answered 429 and the handler does not run, else the
\* handler sends its SELECT and returns to the event loop
GetOrderReceive(g, ip, id) ==
    /\ Listening
    /\ got[g].at \in {"idle", "done"}
    /\ Count(ip)
    /\ got' = [got EXCEPT ![g] =
                  IF OverLimit(ip)
                  THEN [at |-> "done", id |-> id,
                        res |-> [status |-> TooManyRequests, error |-> TooManyMessage]]
                  ELSE [at |-> "query", id |-> id, res |-> NoResponse]]
    /\ UNCHANGED placing
    /\ UNCHANGED <<restaurants, health>>
    /\ UNCHANGED elsewhere

\* await pool.query(...) of GET /api/orders/:id settles: the handler
\* answers with the row, 404 without one, 500 from its catch block
GetOrderQuery(g, ok) ==
    /\ Alive
    /\ got[g].at = "query"
    /\ got' = [got EXCEPT ![g] =
                  [at |-> "done", id |-> got[g].id,
                   res |-> IF ~ok THEN [status |-> InternalError, error |-> QueryFailed]
                           ELSE IF Len(JoinOrder(got[g].id)) = 0
                           THEN [status |-> NotFound, error |-> "Order not found"]
                           ELSE [status |-> Ok, order |-> JoinOrder(got[g].id)[1].order,
                                 items |-> JoinOrder(got[g].id)[1].items]]]
    /\ UNCHANGED placing
    /\ UNCHANGED <<restaurants, hits, reached, limited, health>>
    /\ UNCHANGED elsewhere

\* ------------------------------------------------------------- other requests
\* windowMs have passed since the counter of an IP was started
WindowExpires(ip) ==
    /\ Alive
    /\ hits[ip] > 0
    /\ hits' = [hits EXCEPT ![ip] = 0]
    /\ reached' = [reached EXCEPT ![ip] = 0]
    /\ UNCHANGED placing
    /\ UNCHANGED <<restaurants, got, limited, health>>
    /\ UNCHANGED elsewhere

\* ------------------------------------------------------------- health
\* mutant: Redis is not probed
HealthResponseDbOnly(dbOk, redisOk) ==
    IF ~dbOk THEN [status |-> ServiceUnavailable, state |-> "unhealthy", error |-> DbError]
    ELSE [status |-> Ok, state |-> "healthy", database |-> "connected",
          redis |-> "connected"]

\* the response of GET /health: the database is probed first, Redis only
\* when the database answered
HealthResponse(dbOk, redisOk) ==
    IF ~dbOk THEN [status |-> ServiceUnavailable, state |-> "unhealthy", error |-> DbError]
    ELSE IF ~redisOk
    THEN [status |-> ServiceUnavailable, state |-> "unhealthy", error |-> RedisError]
    ELSE [status |-> Ok, state |-> "healthy", database |-> "connected",
          redis |-> "connected"]

\* GET /health, which is not under /api/ and so is not counted by the
\* limiter: the request arrives and the handler calls pool.query('SELECT 1')
HealthReceive(p) ==
    /\ Listening
    /\ health[p].at \in {"idle", "done"}
    /\ health' = [health EXCEPT ![p] = [NoProbe EXCEPT !.at = "db"]]
    /\ UNCHANGED placing
    /\ UNCHANGED <<restaurants, got, hits, reached, limited>>
    /\ UNCHANGED elsewhere

\* await pool.query('SELECT 1') settles: the handler calls redis.ping(), or
\* its catch block answers
HealthDb(p, ok) ==
    /\ Alive
    /\ health[p].at = "db"
    /\ health' = [health EXCEPT ![p] =
                      IF ok THEN [@ EXCEPT !.db = "ok", !.at = "redis"]
                      ELSE [@ EXCEPT !.db = "failed", !.at = "done",
                                     !.res = HealthResponse(FALSE, FALSE)]]
    /\ UNCHANGED placing
    /\ UNCHANGED <<restaurants, got, hits, reached, limited>>
    /\ UNCHANGED elsewhere

\* await redis.ping() settles: the handler answers
HealthRedis(p, ok) ==
    /\ Alive
    /\ health[p].at = "redis"
    /\ health' = [health EXCEPT ![p] =
                      [@ EXCEPT !.redis = IF ok THEN "ok" ELSE "failed",
                                !.at = "done",
                                !.res = HealthResponse(TRUE, ok)]]
    /\ UNCHANGED placing
    /\ UNCHANGED <<restaurants, got, hits, reached, limited>>
    /\ UNCHANGED elsewhere

\* ------------------------------------------------------------- routing
\* A path is its sequence of segments.  The routes, in the order in which
\* they are registered; ":id" stands for a route parameter.
Routes ==
    <<[method |-> "GET", path |-> <<"health">>, name |-> "health"],
      [method |-> "GET", path |-> <<"metrics">>, name |-> "metrics"],
      [method |-> "GET", path |-> <<"api", "restaurants">>, name |-> "listRestaurants"],
      [method |-> "GET", path |-> <<"api", "restaurants", ":id">>, name |-> "getRestaurant"],
      [method |-> "POST", path |-> <<"api", "orders">>, name |-> "placeOrder"],
      [method |-> "GET", path |-> <<"api", "orders", ":id">>, name |-> "getOrder"],
      [method |-> "GET", path |-> <<"api", "search">>, name |-> "search"],
      [method |-> "GET", path |-> <<"api", "restaurants">>, name |-> "cachedRestaurants"]>>

\* the requests followed here: the restaurants routes and paths no route has
Methods == {"GET", "POST"}
Urls == {<<"api", "restaurants">>, <<"api", "restaurants", "1">>,
         <<"api", "restaurants", "999">>, <<"api", "nonexistent">>, <<"nowhere">>}

\* req.params.id as the integer the query compares it with
ParseId(segment) ==
    CASE segment = "1" -> 1
      [] segment = "2" -> 2
      [] segment = "999" -> UnknownId
      [] OTHER -> 0

Matches(route, method, url) ==
    /\ route.method = method
    /\ Len(route.path) = Len(url)
    /\ \A i \in DOMAIN url : route.path[i] = ":id" \/ route.path[i] = url[i]

\* the route that serves a request: the first registered one that matches
\* (each handler answers and never calls next), 0 when none does
Dispatch(method, url) ==
    LET hits_ == {i \in DOMAIN Routes : Matches(Routes[i], method, url)}
    IN  IF hits_ = {} THEN 0 ELSE CHOOSE i \in hits_ : \A j \in hits_ : i <= j

\* a response of the routes followed here
Answer(method, url, name, status, error, body, via) ==
    [method |-> method, url |-> url, route |-> name, status |-> status,
     error |-> error, body |-> body, via |-> via]

\* rows of SELECT r.*, json_agg(...) FROM restaurants r LEFT JOIN menu_items
\* mi ... WHERE r.id = $1 GROUP BY r.id
JoinRestaurant(id) ==
    IF id \notin DOMAIN restaurants THEN <<>>
    ELSE <<[id |-> id, name |-> restaurants[id],
            menu |-> LET mine == {m \in DOMAIN menuOwner : menuOwner[m] = id}
                     IN  IF mine = {} THEN {0} ELSE mine]>>

\* mutant: the row is sent without looking whether there is one
RestaurantStatusNoCheck(rows) == Ok

\* GET /api/restaurants/:id: the status for the rows the query returned
RestaurantStatus(rows) == IF Len(rows) = 0 THEN NotFound ELSE Ok

\* what the handler of a route answers
Serve(name, method, url, ok) ==
    CASE name = "listRestaurants" ->
           IF ok THEN Answer(method, url, name, Ok, "", restaurants, "database")
           ELSE Answer(method, url, name, InternalError, DbError, <<>>, "database")
      [] name = "getRestaurant" ->
           LET rows == JoinRestaurant(ParseId(url[3]))
           IN  IF ~ok THEN Answer(method, url, name, InternalError, DbError, <<>>, "database")
               ELSE IF RestaurantStatus(rows) = NotFound
               THEN Answer(method, url, name, NotFound, "Restaurant not found", <<>>, "database")
               ELSE Answer(method, url, name, RestaurantStatus(rows), "", rows, "database")
      [] name = "cachedRestaurants" ->
           \* cache(300), then a handler with an empty body, which answers nothing
           IF ok /\ cached.present
           THEN Answer(method, url, name, Ok, "", cached.body, "cache")
           ELSE Answer(method, url, name, 0, "", <<>>, "none")
      [] OTHER -> Answer(method, url, name, 0, "", <<>>, "none")

\* the routes whose handler awaits pool.query(...) before it answers
Awaits(name) == name \in {"listRestaurants", "getRestaurant"}

\* a request for one of the paths followed here arrives: it goes through
\* the limiter when its path is under /api/, then through the routes, and
\* through the final 404 handler when none matches; the handler of a
\* restaurants route sends its SELECT and returns to the event loop
RouteReceive(r, ip, method, url) ==
    /\ Listening
    /\ routed[r].at \in {"idle", "done"}
    /\ IF url[1] = "api" THEN Count(ip) ELSE UNCHANGED <<hits, reached, limited>>
    /\ routed' = [routed EXCEPT ![r] =
          IF url[1] = "api" /\ OverLimit(ip)
          THEN [at |-> "done", method |-> method, url |-> url,
                res |-> Answer(method, url, "limiter", TooManyRequests,
                               TooManyMessage, <<>>, "none")]
          ELSE IF Dispatch(method, url) = 0
          THEN [at |-> "done", method |-> method, url |-> url,
                res |-> Answer(method, url, "none", NotFound, "Route not found",
                               <<>>, "none")]
          ELSE IF Awaits(Routes[Dispatch(method, url)].name)
          THEN [at |-> "query", method |-> method, url |-> url, res |-> NoResponse]
          ELSE [at |-> "done", method |-> method, url |-> url,
                res |-> Serve(Routes[Dispatch(method, url)].name, method, url, TRUE)]]
    /\ UNCHANGED placing
    /\ UNCHANGED <<restaurants, got, health, cached, menuOwner, proc>>

\* await pool.query(...) of a restaurants route settles: the handler answers
RouteQuery(r, ok) ==
    /\ Alive
    /\ routed[r].at = "query"
    /\ routed' = [routed EXCEPT ![r] =
          [@ EXCEPT !.at = "done",
                    !.res = Serve(Routes[Dispatch(routed[r].method, routed[r].url)].name,
                                  routed[r].method, routed[r].url, ok)]]
    /\ UNCHANGED placing
    /\ UNCHANGED <<restaurants, got, hits, reached, limited, health, cached,
                   menuOwner, proc>>

\* everything one invocation of the handler can do next
Step(h, ip, bodies, quotes) ==
    \/ \E body \in bodies, quote \in quotes : Receive(h, ip, body, quote)
    \/ ReceiveMalformed(h)
    \/ \E ok \in BOOLEAN : Connect(h, ok)
    \/ \E ok \in BOOLEAN : Begin(h, ok)
    \/ \E ok \in BOOLEAN : Lookup(h, ok)
    \/ \E ok \in BOOLEAN : InsertOrder(h, ok)
    \/ \E ok \in BOOLEAN : SelectItem(h, ok)
    \/ \E ok \in BOOLEAN : InsertItem(h, ok)
    \/ \E ok \in BOOLEAN : Commit(h, ok)
    \/ Respond(h)
    \/ \E ok \in BOOLEAN : Catch(h, ok)
    \/ Release(h)
    \/ \E forwarded \in BOOLEAN : Rejected(h, forwarded)

\* one request with any items list, the menu created and a price changed
\* at any moment
Next ==
    \/ Step(First, Caller, ItemLists, ClientPrices)
    \/ CreateMenu
    \/ \E m \in MenuIds, v \in Prices : UpdatePrice(m, v)

Spec == Init /\ [][Next]_vars

\* two requests for the shared menu item, served in any interleaving, the
\* menu created and the item's price changed at any moment
NextConc ==
    \/ \E h \in Handlers : Step(h, Caller, SharedLists, {0})
    \/ CreateMenu
    \/ \E v \in Prices : UpdatePrice(SharedItem, v)

SpecConc == Init /\ [][NextConc]_vars

\* one request for single units of menu items, while a reader asks at any
\* moment for an order whose id the sequence has handed out, for restaurants
\* and for paths that do not exist, up to MaxReads counted requests in a
\* window; the requests for an order may overlap each other
NextRead ==
    \/ Step(First, Caller, UnitLists, {0})
    \/ CreateMenu
    \/ \E g \in Gets, id \in 1..orderSeq :
          hits[Reader] < MaxReads /\ GetOrderReceive(g, Reader, id)
    \/ \E g \in Gets, ok \in BOOLEAN : GetOrderQuery(g, ok)
    \/ \E method \in Methods, url \in Urls :
          hits[Reader] < MaxReads /\ RouteReceive("r1", Reader, method, url)
    \/ \E ok \in BOOLEAN : RouteQuery("r1", ok)
    \/ WindowExpires(Reader)

SpecRead == Init /\ [][NextRead]_vars

\* requests for paths under /api/ and outside it that may overlap: those of
\* one address are followed up to MaxOver requests beyond the limit of a
\* window, those of another up to MaxReads requests
NextOps ==
    \/ \E r \in Reqs, url \in Urls :
          hits[Caller] < RateMax + MaxOver /\ RouteReceive(r, Caller, "GET", url)
    \/ \E r \in Reqs, url \in Urls :
          hits[Reader] < MaxReads /\ RouteReceive(r, Reader, "GET", url)
    \/ \E r \in Reqs, ok \in BOOLEAN : RouteQuery(r, ok)
    \/ \E ip \in Ips : WindowExpires(ip)

SpecOps == Init /\ [][NextOps]_vars

\* health checks that overlap each other and an order request
NextHealth ==
    \/ \E p \in Probes : HealthReceive(p)
    \/ \E p \in Probes, ok \in BOOLEAN : HealthDb(p, ok)
    \/ \E p \in Probes, ok \in BOOLEAN : HealthRedis(p, ok)
    \/ Step(First, Caller, SharedLists, {0})
    \/ CreateMenu

SpecHealth == Init /\ [][NextHealth]_vars

\* ------------------------------------------------------------- start-up
\* what no statement of start-up or shutdown reads or writes
requests == <<priceChanges, orders, orderItems, orderSeq, gauge, pc, items,
              idx, total, orderId, rowPrice, seen, reread, pendOrders,
              pendItems, tx, err, resp, conn, releases, supplied, rejection,
              got, hits, reached, limited, health, routed, cached>>

\* the state of a process that is started over a database without tables
InitBoot ==
    /\ menu = <<>>
    /\ priceChanges = 0
    /\ orders = <<>>
    /\ orderItems = <<>>
    /\ orderSeq = 0
    /\ gauge = 0
    /\ pc = [h \in Handlers |-> "idle"]
    /\ items = [h \in Handlers |-> <<>>]
    /\ idx = [h \in Handlers |-> 0]
    /\ total = [h \in Handlers |-> Zero]
    /\ orderId = [h \in Handlers |-> 0]
    /\ rowPrice = [h \in Handlers |-> 0]
    /\ seen = [h \in Handlers |-> <<>>]
    /\ reread = [h \in Handlers |-> <<>>]
    /\ pendOrders = [h \in Handlers |-> <<>>]
    /\ pendItems = [h \in Handlers |-> <<>>]
    /\ tx = [h \in Handlers |-> "none"]
    /\ err = [h \in Handlers |-> NoError]
    /\ resp = [h \in Handlers |-> NoResponse]
    /\ conn = [h \in Handlers |-> FALSE]
    /\ releases = [h \in Handlers |-> 0]
    /\ supplied = [h \in Handlers |-> 0]
    /\ rejection = [h \in Handlers |-> "none"]
    /\ restaurants = <<>>
    /\ got = [g \in Gets |-> NoGet]
    /\ hits = [ip \in Ips |-> 0]
    /\ reached = [ip \in Ips |-> 0]
    /\ limited = [ip \in Ips |-> 0]
    /\ health = [p \in Probes |-> NoProbe]
    /\ routed = [r \in Reqs |-> NoReq]
    /\ cached = NoCache
    /\ menuOwner = <<>>
    /\ proc = Booting({}, 0)

\* pool.end() has been called: a signal handler has started
PoolEnding == \E s \in Signals : proc.sig[s] # "idle"

\* the positions at which start-up awaits a pool.query
Querying == {"initializeDatabase", "count", "restaurant1", "restaurant2", "menu1"}

\* start-up awaits a statement the pool took on
InFlight == proc.at \in Querying /\ ~proc.refused

\* The awaited pool.query can resolve only when the pool took the statement
\* on (pool.end() had not been called when it was issued) and the tables it
\* names exist; it can reject in any case.
CanResolve(ok, needed) == ok => (~proc.refused /\ needed \subseteq proc.tables)

\* start-up goes on to its next pool.query, which an ending pool refuses
Issue(p, at) == [p EXCEPT !.at = at, !.refused = PoolEnding]

\* mutant: initializeDatabase lets the error of a statement escape, and
\* startServer's catch block ends the process
InitializeDatabaseThrows(ok) ==
    /\ proc.at = "initializeDatabase"
    /\ CanResolve(ok, {})
    /\ proc' = IF ~ok
               THEN [proc EXCEPT !.at = "exited", !.exit = 1, !.initFailed = TRUE]
               ELSE IF proc.step < Len(Schema)
               THEN Issue([proc EXCEPT !.tables = @ \cup {Schema[proc.step]},
                                       !.step = @ + 1], "initializeDatabase")
               ELSE Issue([proc EXCEPT !.tables = @ \cup {Schema[proc.step]},
                                       !.step = 0,
                                       !.done = Append(@, "initializeDatabase")],
                          "count")
    /\ UNCHANGED <<menu, menuOwner, restaurants, requests>>

\* initializeDatabase: one awaited CREATE TABLE IF NOT EXISTS per step; the
\* first that rejects is logged by the catch block and the function returns;
\* startServer then calls insertSampleData, which issues its count
InitializeDatabase(ok) ==
    /\ proc.at = "initializeDatabase"
    /\ CanResolve(ok, {})
    /\ proc' = IF ~ok
               THEN Issue([proc EXCEPT !.initFailed = TRUE, !.step = 0,
                                       !.done = Append(@, "initializeDatabase")],
                          "count")
               ELSE IF proc.step < Len(Schema)
               THEN Issue([proc EXCEPT !.tables = @ \cup {Schema[proc.step]},
                                       !.step = @ + 1], "initializeDatabase")
               ELSE Issue([proc EXCEPT !.tables = @ \cup {Schema[proc.step]},
                                       !.step = 0,
                                       !.done = Append(@, "initializeDatabase")],
                          "count")
    /\ UNCHANGED <<menu, menuOwner, restaurants, requests>>

\* insertSampleData returns: normally, or from its catch block after logging
SeedReturns(failed) ==
    [proc EXCEPT !.seedFailed = failed,
                 !.done = Append(@, "insertSampleData"),
                 !.refused = FALSE,
                 !.at = "listen"]

\* SELECT COUNT(*) FROM restaurants, and the early return
CountRestaurants(ok) ==
    /\ proc.at = "count"
    /\ CanResolve(ok, {"restaurants"})
    /\ proc' = IF ~ok THEN SeedReturns(TRUE)
               ELSE IF Len(restaurants) > 0 THEN SeedReturns(FALSE)
               ELSE Issue(proc, "restaurant1")
    /\ UNCHANGED <<menu, menuOwner, restaurants, requests>>

\* INSERT INTO restaurants ... 'Spice Garden' RETURNING id
InsertRestaurant1(ok) ==
    /\ proc.at = "restaurant1"
    /\ CanResolve(ok, {"restaurants"})
    /\ IF ok
       THEN /\ restaurants' = Append(restaurants, SampleRestaurants[1])
            /\ proc' = Issue([proc EXCEPT !.r1 = Len(restaurants) + 1], "restaurant2")
       ELSE /\ proc' = SeedReturns(TRUE)
            /\ UNCHANGED restaurants
    /\ UNCHANGED <<menu, menuOwner, requests>>

\* INSERT INTO restaurants ... 'Pizza Palace' RETURNING id
InsertRestaurant2(ok) ==
    /\ proc.at = "restaurant2"
    /\ CanResolve(ok, {"restaurants"})
    /\ IF ok
       THEN /\ restaurants' = Append(restaurants, SampleRestaurants[2])
            /\ proc' = Issue([proc EXCEPT !.r2 = Len(restaurants) + 1], "menu1")
       ELSE /\ proc' = SeedReturns(TRUE)
            /\ UNCHANGED restaurants
    /\ UNCHANGED <<menu, menuOwner, requests>>

\* INSERT INTO menu_items: the two items of restaurant1.  The statement
\* has eleven placeholders ($1..$6 and $1, $7..$11) and is given twelve
\* values, so it is rejected whenever it is sent; the catch block logs the
\* error, and the INSERT for restaurant2 after it is never reached.
InsertMenu1 ==
    /\ proc.at = "menu1"
    /\ proc' = SeedReturns(TRUE)
    /\ UNCHANGED <<menu, menuOwner, restaurants, requests>>

\* app.listen(PORT, ...)
Listen ==
    /\ proc.at = "listen"
    /\ proc' = [proc EXCEPT !.at = "listening"]
    /\ UNCHANGED <<menu, menuOwner, restaurants, requests>>

\* the program is started again, over the store the earlier process left
StartServer ==
    /\ proc.at \in {"listening", "exited"}
    /\ proc.restarts < MaxRestarts
    /\ proc' = Booting(proc.tables, proc.restarts + 1)
    /\ UNCHANGED <<menu, menuOwner, restaurants, requests>>

\* ------------------------------------------------------------- shutdown
\* a promise of an async signal handler rejects and nothing catches it:
\* Node 18 ends the process with code 1
UnhandledRejection(s) ==
    [proc EXCEPT !.sig[s] = "rejected", !.at = "exited", !.exit = 1]

\* the signal arrives: the handler logs and calls pool.end(), which rejects
\* when the pool has been ended before
Signal(s) ==
    /\ Alive
    /\ proc.sig[s] = "idle"
    /\ proc' = IF PoolEnding THEN UnhandledRejection(s)
               ELSE [proc EXCEPT !.sig[s] = "poolEnd"]
    /\ UNCHANGED <<menu, menuOwner, restaurants, requests>>

\* await pool.end() resolves, once no statement the pool took on is
\* outstanding; the handler calls redis.quit()
PoolEnd(s) ==
    /\ Alive
    /\ proc.sig[s] = "poolEnd"
    /\ ~InFlight
    /\ proc' = [proc EXCEPT !.sig[s] = "redisQuit",
                            !.closed = Append(@, "pool")]
    /\ UNCHANGED <<menu, menuOwner, restaurants, requests>>

\* await redis.quit() resolves, and process.exit(0) follows; or it rejects
RedisQuit(s, ok) ==
    /\ Alive
    /\ proc.sig[s] = "redisQuit"
    /\ proc' = IF ok
               THEN [proc EXCEPT !.sig[s] = "exit",
                                 !.closed = Append(@, "redis"),
                                 !.at = "exited", !.exit = 0]
               ELSE UnhandledRejection(s)
    /\ UNCHANGED <<menu, menuOwner, restaurants, requests>>

NextBoot ==
    \/ \E ok \in BOOLEAN : InitializeDatabase(ok)
    \/ \E ok \in BOOLEAN : CountRestaurants(ok)
    \/ \E ok \in BOOLEAN : InsertRestaurant1(ok)
    \/ \E ok \in BOOLEAN : InsertRestaurant2(ok)
    \/ InsertMenu1
    \/ Listen
    \/ StartServer
    \/ \E s \in Signals : Signal(s)
    \/ \E s \in Signals : PoolEnd(s)
    \/ \E s \in Signals, ok \in BOOLEAN : RedisQuit(s, ok)

SpecBoot == InitBoot /\ [][NextBoot]_vars


\* ============================================================= properties
\* the committed rows that carry the order id a call was given
OrderRowsOf(h) == SelectSeq(orders, LAMBDA r : r.id = orderId[h])
ItemRowsOf(h) == SelectSeq(orderItems, LAMBDA r : r.order_id = orderId[h])

\* sum of prices[i] * entries[i].quantity over a list's entries
RECURSIVE SumLines(_, _)
SumLines(prices, entries) ==
    IF Len(entries) = 0 \/ Len(prices) = 0 THEN 0
    ELSE prices[1] * entries[1].quantity + SumLines(Tail(prices), Tail(entries))

\* sum of price * quantity over rows of order_items
RECURSIVE SumRows(_)
SumRows(rows) ==
    IF Len(rows) = 0 THEN 0
    ELSE rows[1].price * rows[1].quantity + SumRows(Tail(rows))

\* the current menu price of every entry of a list
MenuPrices(entries) == [i \in DOMAIN entries |-> menu[entries[i].menu_item_id]]

\* a list names an id that no menu item ever has
HasUnknown(entries) == \E i \in DOMAIN entries : entries[i].menu_item_id \notin MenuIds

\* the position of the first such entry
FirstUnknown(entries) ==
    CHOOSE i \in DOMAIN entries :
        /\ entries[i].menu_item_id \notin MenuIds
        /\ \A j \in 1..(i - 1) : entries[j].menu_item_id \in MenuIds

\* the errors that name a missing item at or before that position: the
\* entry itself, or an earlier one whose item had not been created yet
MissingUpTo(entries) ==
    {NotFoundMessage(entries[j].menu_item_id) : j \in 1..FirstUnknown(entries)}

\* C1: in every committed state, under any interleaving of calls that succeed
\* or fail at any step, each call has either its one Order row and all N of
\* its OrderItem rows committed, or no row at all; no OrderItem row is
\* committed without its Order row.
C1_AllOrNothing ==
    /\ \A h \in Handlers :
          \/ Len(OrderRowsOf(h)) = 0 /\ Len(ItemRowsOf(h)) = 0
          \/ Len(OrderRowsOf(h)) = 1 /\ Len(ItemRowsOf(h)) = Len(items[h])
    /\ \A i \in DOMAIN orderItems :
          \E j \in DOMAIN orders : orders[j].id = orderItems[i].order_id
    /\ \A j \in DOMAIN orders :
          \E h \in Handlers : tx[h] = "committed" /\ orderId[h] = orders[j].id

\* one call committed a two-item order while the other call, having written
\* its Order row, failed and was rolled back
C1_Witness ==
    \E h, g \in Handlers :
        /\ h # g
        /\ tx[h] = "committed" /\ Len(items[h]) = 2 /\ Len(ItemRowsOf(h)) = 2
        /\ tx[g] = "rolledback" /\ orderId[g] # 0 /\ Len(ItemRowsOf(g)) = 0

\* C2: when an items list references a menu item that does not exist, at any
\* position, the call never writes or commits an Order or OrderItem row, it
\* never answers 201, and the error it answers with names a missing item:
\* that entry's, or an earlier entry's whose item was missing when it was
\* looked up (or it is the error of a query that failed before, or the error
\* middleware's when the ROLLBACK was rejected too).
C2_UnknownItemFails ==
    \A h \in Handlers :
        HasUnknown(items[h]) =>
            /\ orderId[h] = 0
            /\ pendOrders[h] = <<>> /\ pendItems[h] = <<>>
            /\ orders = <<>> /\ orderItems = <<>>
            /\ resp[h].status \in {NoResponse.status, InternalError}
            /\ resp[h].status = InternalError =>
                  resp[h].error \in {QueryFailed, SomethingWentWrong}
                                        \cup MissingUpTo(items[h])
            /\ (pc[h] = "catch" /\ err[h] # QueryFailed) =>
                  /\ err[h] \in MissingUpTo(items[h])
                  /\ err[h] = NotFoundMessage(items[h][Len(seen[h]) + 1].menu_item_id)
            /\ Len(seen[h]) < FirstUnknown(items[h])

\* the missing item is the second entry, after an entry that exists
C2_Witness ==
    /\ pc[First] = "done"
    /\ Len(items[First]) = 2
    /\ items[First][1].menu_item_id \in DOMAIN menu
    /\ items[First][2].menu_item_id = UnknownId
    /\ resp[First] = [status |-> InternalError, error |-> NotFoundMessage(UnknownId)]
    /\ orders = <<>> /\ orderItems = <<>>

\* C3: the total_amount a successful call returns, and the one stored on its
\* Order row, is the sum over the list entries of (price read for the entry *
\* quantity), a repeated menu item counting once per entry; with no price
\* change that is the sum of (menu price * quantity).  The number returned
\* is the sum when it is the number the decimal amount of the sum denotes.
C3_TotalIsSum ==
    \A h \in Handlers :
        resp[h].status = Created =>
            /\ Len(OrderRowsOf(h)) = 1
            /\ pc[h] = "finally" =>
                  /\ Len(seen[h]) = Len(items[h])
                  /\ OrderRowsOf(h)[1].total_amount = SumLines(seen[h], items[h])
                  /\ resp[h].total_amount = ToNumber(SumLines(seen[h], items[h]))
            /\ priceChanges = 0 =>
                  /\ OrderRowsOf(h)[1].total_amount
                        = SumLines(MenuPrices(items[h]), items[h])
                  /\ resp[h].total_amount
                        = ToNumber(SumLines(MenuPrices(items[h]), items[h]))

\* C4: every committed Order's total_amount equals the sum of price * quantity
\* over its own committed OrderItems.
C4_TotalMatchesItems ==
    \A j \in DOMAIN orders :
        orders[j].total_amount =
            SumRows(SelectSeq(orderItems, LAMBDA r : r.order_id = orders[j].id))

\* C5: the price written to each OrderItem is the price read for that entry
\* by the total computation.
C5_WritesCapturedPrice ==
    \A h \in Handlers :
        \A i \in DOMAIN pendItems[h] :
            i \in DOMAIN seen[h] /\ pendItems[h][i].price = seen[h][i]

\* C6: two overlapping calls for the same menu item do not make each other
\* fail: a call fails only when one of its own queries fails, or when the
\* item had not been created at its first lookup; and the price on every
\* OrderItem of a call is the price that call's own SELECT returned for that
\* entry, whatever the other call and price updates do meanwhile.
C6_IndependentCalls ==
    \A h \in Handlers :
        /\ pc[h] = "catch" =>
              \/ err[h] = QueryFailed
              \/ err[h] = NotFoundMessage(SharedItem) /\ seen[h] = <<>>
        /\ resp[h].status # Created =>
              resp[h] \in {NoResponse, ErrorMiddlewareBody,
                          [status |-> InternalError, error |-> QueryFailed],
                          [status |-> InternalError,
                           error |-> NotFoundMessage(SharedItem)]}
        /\ \A i \in DOMAIN pendItems[h] : pendItems[h][i].price = reread[h][i]
        /\ (pc[h] = "finally" /\ tx[h] = "committed") =>
              /\ Len(ItemRowsOf(h)) = Len(reread[h])
              /\ \A i \in DOMAIN reread[h] : ItemRowsOf(h)[i].price = reread[h][i]

\* both calls succeeded and their OrderItems carry different prices
C6_Witness ==
    /\ \A h \in Handlers : resp[h].status = Created
    /\ \E i, j \in DOMAIN orderItems :
          /\ orderItems[i].order_id # orderItems[j].order_id
          /\ orderItems[i].menu_item_id = orderItems[j].menu_item_id
          /\ orderItems[i].price # orderItems[j].price

\* C7: a change of a menu price leaves every committed (and every pending)
\* Order and OrderItem row as it was, committed rows never change, and every
\* price a call reads after the change is the changed price.
C7_Snapshot ==
    [][/\ menu' # menu =>
             /\ orders' = orders /\ orderItems' = orderItems
             /\ pendOrders' = pendOrders /\ pendItems' = pendItems
       /\ \A j \in DOMAIN orders : j \in DOMAIN orders' /\ orders'[j] = orders[j]
       /\ \A i \in DOMAIN orderItems :
             i \in DOMAIN orderItems' /\ orderItems'[i] = orderItems[i]
       /\ \A h \in Handlers :
             /\ Len(seen'[h]) = Len(seen[h]) + 1 =>
                   /\ seen'[h][Len(seen'[h])] = menu[items[h][idx[h]].menu_item_id]
                   /\ total'[h] = Plus(total[h],
                                        LineAmount(menu[items[h][idx[h]].menu_item_id],
                                                   items[h][idx[h]].quantity))
             /\ Len(reread'[h]) = Len(reread[h]) + 1 =>
                   rowPrice'[h] = menu[items[h][idx[h]].menu_item_id]
      ]_vars

\* an order placed before the price change keeps the old price and an order
\* placed after it carries the new one
C7_Witness ==
    /\ priceChanges = 1
    /\ Len(orders) = 2
    /\ \E i, j \in DOMAIN orderItems :
          /\ i < j
          /\ orderItems[i].order_id = orders[1].id
          /\ orderItems[j].order_id = orders[2].id
          /\ orderItems[i].price = SampleMenu[SharedItem]
          /\ orderItems[j].price = menu[SharedItem]
          /\ orderItems[i].price # orderItems[j].price
    /\ \A j \in DOMAIN orders :
          orders[j].total_amount =
              SumRows(SelectSeq(orderItems, LAMBDA r : r.order_id = orders[j].id))

Holding == {"begin", "lookup", "insertOrder", "selectItem", "insertItem",
            "commit", "respond", "catch", "finally", "finallyThrown"}

\* C8: a call holds a pool connection exactly from the moment pool.connect
\* resolved until its finally block, and once it has ended on any path it has
\* released that connection exactly once (never, if it got none).
C8_ReleasedOnce ==
    \A h \in Handlers :
        /\ conn[h] <=> pc[h] \in Holding
        /\ releases[h] = IF pc[h] \in {"done", "thrown"} THEN 1 ELSE 0

\* the ROLLBACK of a failed call failed too, and the connection came back
C8_Witness ==
    /\ pc[First] = "thrown"
    /\ releases[First] = 1
    /\ ~conn[First]
    /\ tx[First] = "open"

\* C9: a call that answered 201 has committed exactly one Order row, whose id
\* is the order_id it returned, and exactly one OrderItem row per list entry,
\* in list order, each with the entry's menu item and quantity.
C9_OneOrderNItems ==
    \A h \in Handlers :
        resp[h].status = Created =>
            /\ Len(OrderRowsOf(h)) = 1
            /\ OrderRowsOf(h)[1].id = resp[h].order_id
            /\ resp[h].order_id = orderId[h]
            /\ Len(ItemRowsOf(h)) = Len(items[h])
            /\ \A i \in DOMAIN items[h] :
                  /\ ItemRowsOf(h)[i].order_id = resp[h].order_id
                  /\ ItemRowsOf(h)[i].menu_item_id = items[h][i].menu_item_id
                  /\ ItemRowsOf(h)[i].quantity = items[h][i].quantity

\* a successful order of two different entries
C9_Witness ==
    /\ resp[First].status = Created
    /\ Len(items[First]) = 2
    /\ items[First][1].menu_item_id # items[First][2].menu_item_id
    /\ items[First][1].quantity # items[First][2].quantity
    /\ Len(orders) = 1 /\ Len(orderItems) = 2

\* C10: whenever a call is answered with a failure, by the handler or by
\* the error middleware, the status is 500, its transaction is not open and
\* not committed (none was begun, or ROLLBACK succeeded), and no Order or
\* OrderItem row of the call is committed or pending.  (A request refused or
\* limited before the handler ran is no failure of the call.)
C10_FailureRolledBack ==
    \A h \in Handlers :
        (resp[h] # NoResponse /\ resp[h].status # Created
            /\ pc[h] \notin {"refused", "limited"}) =>
            /\ resp[h].status = InternalError
            /\ tx[h] \in {"none", "rolledback"}
            /\ Len(OrderRowsOf(h)) = 0 /\ Len(ItemRowsOf(h)) = 0
            /\ pendOrders[h] = <<>> /\ pendItems[h] = <<>>

\* C11: a call that fails because a menu item does not exist is answered
\* with a client error (a 4xx status), not with the 500 a database failure
\* is answered with.
C11_NotFoundIsClientError ==
    \A h \in Handlers :
        (resp[h].status \notin {NoResponse.status, Created}
            /\ pc[h] \notin {"refused", "limited"}
            /\ resp[h].error.text = NotFoundMessage(UnknownId).text) =>
                /\ resp[h].status \in 400..499
                /\ resp[h].status # InternalError

\* C12: every call that has ended, on any path, has been answered: with the
\* success result, with the error of its catch block, or, when the handler's
\* promise rejected (pool.connect or ROLLBACK failed), by the framework.
C12_AlwaysAnswered ==
    \A h \in Handlers :
        (pc[h] = "done" \/ rejection[h] # "none") => resp[h] # NoResponse

\* the positions of a call once one of its steps has failed
AfterFailure(h) ==
    \/ pc[h] \in {"catch", "finallyThrown", "thrown", "connectFailed"}
    \/ pc[h] \in {"finally", "done"} /\ resp[h].status = InternalError

\* C13: nothing is retried.  A call issues BEGIN at most once, right after it
\* got its connection, and once one of its steps has failed it never goes back
\* to a query of the transaction: no further price is read, no further row is
\* written, no further order id is drawn and no transaction is opened.
C13_NoRetry ==
    [][\A h \in {First} :
          /\ (pc'[h] = "begin" /\ pc[h] # "begin") => pc[h] = "connect"
          /\ (tx'[h] = "open" /\ tx[h] # "open") => (pc[h] = "begin" /\ tx[h] = "none")
          /\ AfterFailure(h) =>
                /\ pc'[h] \in {"catch", "finally", "finallyThrown", "thrown",
                              "connectFailed", "done"}
                /\ Len(seen'[h]) <= Len(seen[h])
                /\ Len(reread'[h]) <= Len(reread[h])
                /\ Len(pendOrders'[h]) <= Len(pendOrders[h])
                /\ Len(pendItems'[h]) <= Len(pendItems[h])
                /\ orderSeq' = orderSeq
                /\ tx'[h] # "open" \/ tx[h] = "open"
      ]_vars

\* a call failed on the second entry of its list, after one price lookup,
\* was rolled back and has ended having drawn no order id
C13_Witness ==
    /\ pc[First] = "done"
    /\ resp[First].status = InternalError
    /\ tx[First] = "rolledback"
    /\ Len(items[First]) = 2
    /\ items[First][2].menu_item_id = UnknownId
    /\ orderSeq = 0

\* the order_items objects of a response of GET /api/orders/:id that stand
\* for a row (the all-null object of an order without rows left out)
ItemsGot(g) == SelectSeq(got[g].res.items, LAMBDA r : r.order_id # 0)

\* C14: whenever GET /api/orders/:id runs while a placeOrder call is under
\* way, an order it returns is one whose call has committed, and it comes
\* with every OrderItem of that call, one per list entry in list order; an
\* order of a call that is still running or was rolled back is never
\* returned, in the response of any request, whenever the request arrived
\* and whenever its query settled, and in any response a reader would get
\* now.
C14_NoPartialOrder ==
    /\ \A g \in Gets :
          got[g].res.status = Ok =>
              /\ tx[First] = "committed"
              /\ got[g].res.order.id = orderId[First]
              /\ Len(ItemsGot(g)) = Len(items[First])
              /\ \A i \in DOMAIN ItemsGot(g) :
                    /\ ItemsGot(g)[i].order_id = got[g].res.order.id
                    /\ ItemsGot(g)[i].menu_item_id = items[First][i].menu_item_id
                    /\ ItemsGot(g)[i].quantity = items[First][i].quantity
    /\ \A id \in 1..orderSeq :
          Len(JoinOrder(id)) > 0 =>
              /\ tx[First] = "committed"
              /\ Len(SelectSeq(orderItems, LAMBDA r : r.order_id = id)) = Len(items[First])
    /\ tx[First] # "committed" => orders = <<>> /\ orderItems = <<>>

\* a reader asked for the order of a call that had written its Order row
\* and the first of its two OrderItem rows, and was told there is no such
\* order, while a second request for the same order is counted and not yet
\* answered
C14_Witness ==
    /\ \E g, w \in Gets :
          /\ got[g].res.status = NotFound /\ got[g].id = 1
          /\ got[w].at = "query" /\ got[w].id = 1 /\ got[w].res = NoResponse
    /\ hits[Reader] = 2
    /\ pc[First] = "selectItem"
    /\ Len(items[First]) = 2
    /\ Len(pendOrders[First]) = 1
    /\ Len(pendItems[First]) = 1
    /\ orderId[First] = 1

\* C15: what a call stores and returns is computed from the menu prices its
\* SELECTs returned and from the quantities alone: the total is the sum of
\* price read * quantity, each OrderItem carries the price read for it, and
\* with the menu unchanged both are the menu's, whether or not the client
\* put a price of its own on the entries.
C15_ClientPriceIgnored ==
    \A h \in Handlers :
        /\ \A j \in DOMAIN pendOrders[h] :
              pendOrders[h][j].total_amount = SumLines(seen[h], items[h])
        /\ \A i \in DOMAIN pendItems[h] : pendItems[h][i].price = reread[h][i]
        /\ (tx[h] = "committed" /\ priceChanges = 0) =>
              /\ OrderRowsOf(h)[1].total_amount = SumLines(MenuPrices(items[h]), items[h])
              /\ \A i \in DOMAIN ItemRowsOf(h) :
                    ItemRowsOf(h)[i].price = menu[items[h][i].menu_item_id]
        /\ resp[h].status = Created =>
              Decimal(resp[h].total_amount) = OrderRowsOf(h)[1].total_amount

\* a client put 15.99 on the entries of a two-entry order of menu items that
\* cost more; the order is committed with the menu's prices
C15_Witness ==
    /\ supplied[First] = QuotedPrice
    /\ resp[First].status = Created
    /\ priceChanges = 0
    /\ Len(ItemRowsOf(First)) = 2
    /\ \A i \in DOMAIN ItemRowsOf(First) : ItemRowsOf(First)[i].price > QuotedPrice
    /\ OrderRowsOf(First)[1].total_amount
          > QuotedPrice * (items[First][1].quantity + items[First][2].quantity)

\* C16: every committed Order has at least one OrderItem, and every committed
\* OrderItem has a positive quantity.
C16_OrdersHaveItems ==
    /\ \A j \in DOMAIN orders :
          \E i \in DOMAIN orderItems : orderItems[i].order_id = orders[j].id
    /\ \A i \in DOMAIN orderItems : orderItems[i].quantity > 0

\* C17: every Order row a call writes, uncommitted or committed, has status
\* 'pending', and the call writes no other status.
C17_StatusPending ==
    /\ \A j \in DOMAIN orders : orders[j].status = "pending"
    /\ \A h \in Handlers :
          \A j \in DOMAIN pendOrders[h] : pendOrders[h][j].status = "pending"

\* a call has answered 201 and its committed Order row is pending
C17_Witness ==
    /\ pc[First] = "done"
    /\ resp[First].status = Created
    /\ Len(OrderRowsOf(First)) = 1
    /\ OrderRowsOf(First)[1].status = "pending"
    /\ Len(ItemRowsOf(First)) > 0

\* C18: no step of a placeOrder call, on a path that succeeds or on one that
\* fails, creates, changes or deletes a row of menu_items or of restaurants:
\* whenever the menu changes, the call has not moved, and the restaurants
\* never change.
C18_MenuUntouched ==
    [][/\ restaurants' = restaurants
       /\ (pc' # pc \/ resp' # resp \/ tx' # tx \/ rejection' # rejection) =>
             menu' = menu /\ menuOwner' = menuOwner
      ]_vars

\* a call has committed a two-entry order and ended, and the menu and the
\* restaurants are as they were created
C18_Witness ==
    /\ pc[First] = "done"
    /\ tx[First] = "committed"
    /\ Len(ItemRowsOf(First)) = 2
    /\ menu = SampleMenu
    /\ restaurants = SampleRestaurants

\* C19: GET /health answers 200 with status 'healthy' exactly when the
\* database probe and the Redis ping both succeeded; when either failed it
\* answers 503 with status 'unhealthy' and the message of the failure (the
\* database's when the database failed, in which case Redis is not pinged,
\* else Redis's); it answers nothing before its probes have settled,
\* whatever other requests do meanwhile.
C19_HealthReflectsProbes ==
    \A p \in Probes :
        LET r == health[p]
            both == r.db = "ok" /\ r.redis = "ok"
        IN  /\ r.at # "done" => r.res = NoResponse
            /\ r.db = "failed" => r.redis = "none"
            /\ r.at = "done" =>
                  /\ (r.res.status = Ok) <=> both
                  /\ (r.res.state = "healthy") <=> both
                  /\ both => r.res.database = "connected" /\ r.res.redis = "connected"
                  /\ ~both =>
                        /\ r.res.status = ServiceUnavailable
                        /\ r.res.state = "unhealthy"
                        /\ r.res.error = IF r.db = "failed" THEN DbError ELSE RedisError

\* one health check was answered 503 because its Redis ping failed, while
\* another, whose database probe had succeeded, was still unanswered and an
\* order request held a connection
C19_Witness ==
    \E p, q \in Probes :
        /\ health[p].at = "done" /\ health[p].db = "ok"
        /\ health[p].res.status = ServiceUnavailable
        /\ health[p].res.error = RedisError
        /\ health[q].at = "redis" /\ health[q].res = NoResponse
        /\ conn[First]

\* C20: for every client IP, at most 100 requests to /api/ of one window are
\* passed on to a route handler: the first 100 are, each later one of the
\* window is answered 429 and passed on nowhere; a request for a path
\* outside /api/ is never answered by the limiter, and the requests of
\* other IPs do not count.
C20_RateLimited ==
    /\ \A ip \in Ips :
          /\ reached[ip] <= RateMax
          /\ reached[ip] = IF hits[ip] <= RateMax THEN hits[ip] ELSE RateMax
          /\ hits[ip] > RateMax => limited[ip] = TooManyRequests
          /\ (hits[ip] > 0 /\ hits[ip] <= RateMax) => limited[ip] = 0
    /\ \A r \in Reqs :
          routed[r].res # NoResponse =>
              /\ (routed[r].res.status = TooManyRequests) <=> (routed[r].res.route = "limiter")
              /\ routed[r].res.route = "limiter" =>
                    /\ routed[r].res.url[1] = "api"
                    /\ routed[r].res.error = TooManyMessage
    /\ \A r \in Reqs :
          routed[r].at = "query" => routed[r].url[1] = "api" /\ routed[r].res = NoResponse

\* one IP is past its limit and has just been answered 429, while the one
\* request of another IP has been passed on to its route and awaits its
\* query
C20_Witness ==
    \E ip, other \in Ips, r, w \in Reqs :
        /\ hits[ip] > RateMax + 1
        /\ reached[ip] = RateMax
        /\ limited[ip] = TooManyRequests
        /\ hits[other] = 1 /\ reached[other] = 1 /\ limited[other] = 0
        /\ routed[r].res.status = TooManyRequests
        /\ routed[r].res.route = "limiter"
        /\ routed[w].at = "query"
        /\ routed[w].url = <<"api", "restaurants">>

\* C21: a POST /api/orders request whose body is malformed JSON is answered
\* 400, and the order handler does not run for it: no connection is taken
\* and no transaction is begun.
C21_MalformedIsBadRequest ==
    \A h \in Handlers :
        pc[h] = "refused" =>
            /\ resp[h].status = BadRequest
            /\ ~conn[h] /\ releases[h] = 0
            /\ tx[h] = "none"

\* C22: a request that no registered route matches is answered 404 with
\* error 'Route not found'; GET /api/restaurants/:id for an id no restaurant
\* has is answered 404 'Restaurant not found', and GET /api/orders/:id
\* answers 200 only with an order that exists and 404 'Order not found'
\* otherwise, never a success without a row.
C22_NotFound ==
    /\ \A r \in Reqs :
          routed[r].res # NoResponse =>
              /\ (\A i \in DOMAIN Routes :
                      ~Matches(Routes[i], routed[r].res.method, routed[r].res.url)) =>
                    /\ routed[r].res.status = NotFound
                    /\ routed[r].res.error = "Route not found"
              /\ (routed[r].res.route = "getRestaurant"
                     /\ routed[r].res.status # InternalError) =>
                    IF ParseId(routed[r].res.url[3]) \in DOMAIN restaurants
                    THEN routed[r].res.status = Ok /\ Len(routed[r].res.body) = 1
                    ELSE /\ routed[r].res.status = NotFound
                         /\ routed[r].res.error = "Restaurant not found"
    /\ \A g \in Gets :
          /\ got[g].res.status = Ok => \E j \in DOMAIN orders : orders[j] = got[g].res.order
          /\ got[g].res.status = NotFound => got[g].res.error = "Order not found"
          /\ got[g].res.status \in {NoResponse.status, Ok, NotFound, InternalError}

\* a restaurant that does not exist was asked for and answered 404, after a
\* reader was told that the order of a call still under way does not exist
C22_Witness ==
    /\ \E r \in Reqs :
          /\ routed[r].res.status = NotFound
          /\ routed[r].res.route = "getRestaurant"
          /\ routed[r].res.url = <<"api", "restaurants", "999">>
    /\ \E g \in Gets : got[g].res.status = NotFound
    /\ pc[First] = "commit"

\* C26: a GET /api/restaurants request goes through cache(300): once it has
\* been answered 200, the body is stored in Redis under the request's key, so
\* that the next request within the 300 seconds is answered from there.
C26_RestaurantsCached ==
    \A r \in Reqs :
        (routed[r].res # NoResponse /\ routed[r].res.method = "GET"
            /\ routed[r].res.url = <<"api", "restaurants">>
            /\ routed[r].res.status = Ok) =>
                /\ routed[r].res.route = "cachedRestaurants"
                /\ cached.present
                /\ cached.body = routed[r].res.body

\* C23: within one call the steps come in this order: BEGIN, every price
\* lookup, the Order insert, the OrderItem inserts, COMMIT.  A price is looked
\* up only in the open transaction and before the Order insert; the Order is
\* inserted after the lookup of every entry and before any OrderItem; an
\* OrderItem is inserted only after the Order; COMMIT is issued only after all
\* N OrderItem inserts.
C23_StepOrder ==
    [][\A h \in {First} :
          /\ (Len(seen'[h]) > Len(seen[h]) \/ Len(reread'[h]) > Len(reread[h])) =>
                tx[h] = "open" /\ pendOrders[h] = <<>>
          /\ Len(pendOrders'[h]) > Len(pendOrders[h]) =>
                /\ tx[h] = "open"
                /\ Len(seen[h]) = Len(items[h])
                /\ pendItems[h] = <<>>
          /\ Len(pendItems'[h]) > Len(pendItems[h]) =>
                tx[h] = "open" /\ Len(pendOrders[h]) = 1
          /\ (tx'[h] = "committed" /\ tx[h] # "committed") =>
                /\ tx[h] = "open"
                /\ Len(pendOrders[h]) = 1
                /\ Len(pendItems[h]) = Len(items[h])
      ]_vars

\* C24: when a call has released its connection, the transaction it began
\* on it, if it began one, has been committed or rolled back.
C24_ReleasedWithoutTransaction ==
    \A h \in Handlers :
        releases[h] > 0 => tx[h] \in {"none", "committed", "rolledback"}

\* C25: under every interleaving of two calls, the order ids the calls drew
\* are different, no two committed Orders share an id, every OrderItem row a
\* call writes carries the id of the Order that same call inserted, and a
\* call that succeeded finds under its id exactly its own N rows.
C25_DistinctOrderIds ==
    /\ \A h, g \in Handlers :
          (h # g /\ orderId[h] # 0) => orderId[h] # orderId[g]
    /\ \A j, k \in DOMAIN orders : j # k => orders[j].id # orders[k].id
    /\ \A h \in Handlers :
          /\ \A i \in DOMAIN pendItems[h] :
                /\ orderId[h] # 0
                /\ pendItems[h][i].order_id = orderId[h]
                /\ Len(pendOrders[h]) = 1 /\ pendOrders[h][1].id = orderId[h]
          /\ resp[h].status = Created =>
                /\ Len(OrderRowsOf(h)) = 1
                /\ Len(ItemRowsOf(h)) = Len(items[h])
    /\ \A i \in DOMAIN orderItems :
          \E h \in Handlers :
              tx[h] = "committed" /\ orderId[h] = orderItems[i].order_id

\* both calls succeeded; the call that drew the later id committed first,
\* and each Order has its own OrderItems, of different numbers
C25_Witness ==
    /\ \A h \in Handlers : resp[h].status = Created
    /\ Len(orders) = 2
    /\ orders[1].id > orders[2].id
    /\ \E h, g \in Handlers :
          Len(ItemRowsOf(h)) = 1 /\ Len(ItemRowsOf(g)) = 2

\* C27: whenever no placeOrder call is in flight and at least one call that
\* reached the handler has ended, the order_success_rate gauge equals 100
\* times the number of calls that answered 201, divided by the number of
\* calls that ended.
C27_GaugeIsSuccessRate ==
    LET ended == {h \in Handlers : pc[h] \in {"done", "thrown", "connectFailed"}}
        succeeded == {h \in ended : resp[h].status = Created}
    IN  (ended # {} /\ \A h \in Handlers \ ended : pc[h] \in {"idle", "refused"}) =>
            gauge * Cardinality(ended) = SuccessPercent * Cardinality(succeeded)

\* C28: the server is listening only when initializeDatabase and then
\* insertSampleData have both returned, in that order; once both have
\* returned the process goes on to listen whether or not they failed; and
\* the process ends only through a signal handler, never because one of
\* the two failed.
C28_ListenAfterBoth ==
    /\ proc.at = "listening" =>
          proc.done = <<"initializeDatabase", "insertSampleData">>
    /\ (Len(proc.done) = 2 /\ proc.at # "exited") =>
          proc.at \in {"listen", "listening"}
    /\ proc.at = "exited" => PoolEnding

\* the server listens after a start-up in which both functions failed and
\* no signal arrived
C28_Witness ==
    /\ proc.at = "listening"
    /\ proc.initFailed /\ proc.seedFailed
    /\ ~PoolEnding

\* C29: once insertSampleData has returned with the restaurants table not
\* empty, the store holds the two sample restaurants, each once, and each
\* has its two menu items, each once, whatever runs went before.
C29_SeededExactlyOnce ==
    (Len(proc.done) = 2 /\ Len(restaurants) > 0) =>
        /\ restaurants = SampleRestaurants
        /\ \A r \in DOMAIN restaurants :
              Cardinality({m \in DOMAIN menuOwner : menuOwner[m] = r}) = 2

\* C30: a process that has exited has ended the pool, then quit Redis, and
\* then exited with code 0.
C30_GracefulShutdown ==
    proc.at = "exited" =>
        /\ proc.closed = <<"pool", "redis">>
        /\ proc.exit = 0

====
